---- MODULE Spec2Model ----
(***************************************************************************)
(* ditherphile (main.go): load an image, convert it to 8-bit grayscale,    *)
(* dither it in place with the error-diffusion loop, save it.              *)
(*                                                                         *)
(* An image is a record [w, h, pix] whose bounds are (0,0)-(w,h) and whose *)
(* pix maps <<x, y>> to the pixel.  A float64 is modelled by the exact     *)
(* rational [num, den]; every float the program computes is a multiple of  *)
(* 1/16 smaller than 2^53, so the rational is the float.                   *)
(***************************************************************************)
EXTENDS Integers, Sequences, FiniteSets, TLC

VARIABLES pc, args, file, cfg, inImg, inFormat, err, grayImg,
          width, height, xLim, yLim, low, high, x, y,
          pixVal, dithVal, dithErr, writes, visited,
          called, outFile, exitStatus, stderr

vars == <<pc, args, file, cfg, inImg, inFormat, err, grayImg,
          width, height, xLim, yLim, low, high, x, y,
          pixVal, dithVal, dithErr, writes, visited,
          called, outFile, exitStatus, stderr>>

-----------------------------------------------------------------------------
(* Bounds of the model *)

\* largest width, height and number of pixels of an input image
MaxW == 3
MaxH == 2
MaxCells == 6

\* gray levels of the input images' pixels (each as the colour (v, v, v))
GrayLevels == {50, 127, 128, 200}

\* channel values of the single-pixel images of SpecGray
Channels == {0, 127, 128, 255}

\* samples and residuals handed to a lone addErrorContrib call (SpecContrib)
ContribSamples == {0, 10, 26, 50, 128, 200, 250, 255}
ContribErrs == {-255, -128, -55, -1, 0, 73, 127, 255}

Formats == {"gif", "jpeg", "png"}

Nil == [nil |-> TRUE]

-----------------------------------------------------------------------------
(* Constants of main.go *)

threshold == 127

MaxUint8 == 255

\* a Go constant expression a / b over untyped integer constants: the
\* quotient is the integer quotient, which the float64 parameter then holds
IntConstQuo(a, b) == [num |-> a \div b, den |-> 1]

oneSixteenth_frac == [num |-> 1, den |-> 16]
oneSixteenth == IntConstQuo(1, 16)

threeSixteenths_frac == [num |-> 3, den |-> 16]
threeSixteenths == IntConstQuo(3, 16)

fiveSixteenths_frac == [num |-> 5, den |-> 16]
fiveSixteenths == IntConstQuo(5, 16)

sevenSixteenths_frac == [num |-> 7, den |-> 16]
sevenSixteenths == IntConstQuo(7, 16)

-----------------------------------------------------------------------------
(* Conversions *)

\* uint8(n) of an int n: the low 8 bits
Uint8(n) == n % 256

\* int(f) of the float64 product errVal*perc: truncation toward zero
IntOfProduct(errVal, perc) ==
    LET n == errVal * perc.num
    IN  IF n >= 0 THEN n \div perc.den ELSE -((-n) \div perc.den)

-----------------------------------------------------------------------------
(* Images *)

Coords(w, h) == (0..(w - 1)) \X (0..(h - 1))

InBounds(img, px, py) == px >= 0 /\ px < img.w /\ py >= 0 /\ py < img.h

\* img.At(x, y).(color.Gray).Y: the zero colour outside the bounds
At(img, px, py) == IF InBounds(img, px, py) THEN img.pix[<<px, py>>] ELSE 0

\* img.SetGray(x, y, color.Gray{Y: v}): nothing outside the bounds
SetGray(img, px, py, v) ==
    IF InBounds(img, px, py)
    THEN [img EXCEPT !.pix[<<px, py>>] = v]
    ELSE img

\* result.ColorModel().Convert(c) of an opaque colour with 8-bit channels:
\* color.GrayModel computes (19595*r + 38470*g + 7471*b + 1<<15) >> 24 in
\* uint32 over the 16-bit channels r = 257*R, g = 257*G, b = 257*B.  With
\* S = 19595*R + 38470*G + 7471*B that is (256*S + S + 2^15) >> 8 >> 16,
\* the form below, whose intermediate values stay under 2^31.
Convert_avg(c) == (c[1] + c[2] + c[3]) \div 3
Convert(c) ==
    LET S == 19595 * c[1] + 38470 * c[2] + 7471 * c[3]
    IN  Uint8((S + ((S + 32768) \div 256)) \div 65536)

imageToGrayscale_transposed(img) ==
    [w |-> img.h, h |-> img.w,
     pix |-> [p \in Coords(img.h, img.w) |-> Convert(img.pix[<<p[2], p[1]>>])]]
imageToGrayscale(img) ==
    [w |-> img.w, h |-> img.h,
     pix |-> [p \in Coords(img.w, img.h) |-> Convert(img.pix[p])]]

-----------------------------------------------------------------------------
(* errorDiffusionDither *)

Quantize_ge(v, lo, hi) == IF v >= threshold THEN hi ELSE lo
Quantize(v, lo, hi) == IF v > threshold THEN hi ELSE lo

InnerLoopCond_short(px, w) == px < w - 1
InnerLoopCond(px, w) == px < w

\* the addErrorContrib calls of one pixel, in the order the code makes them
Contribs_le(px, py, xl, yl) ==
    (IF px <= xl
     THEN <<[x |-> px + 1, y |-> py, perc |-> sevenSixteenths]>>
          \o (IF py < yl
              THEN <<[x |-> px + 1, y |-> py + 1, perc |-> oneSixteenth]>>
              ELSE <<>>)
     ELSE <<>>)
    \o
    (IF py < yl
     THEN <<[x |-> px, y |-> py + 1, perc |-> fiveSixteenths]>>
          \o (IF px > 0
              THEN <<[x |-> px - 1, y |-> py + 1, perc |-> threeSixteenths]>>
              ELSE <<>>)
     ELSE <<>>)
Contribs_back(px, py, xl, yl) ==
    (IF px < xl
     THEN <<[x |-> px + 1, y |-> py, perc |-> sevenSixteenths]>>
          \o (IF py < yl
              THEN <<[x |-> px + 1, y |-> py + 1, perc |-> oneSixteenth]>>
              ELSE <<>>)
     ELSE <<>>)
    \o
    (IF py < yl
     THEN <<[x |-> px, y |-> py + 1, perc |-> fiveSixteenths]>>
          \o (IF px > 0
              THEN <<[x |-> px - 1, y |-> py, perc |-> threeSixteenths]>>
              ELSE <<>>)
     ELSE <<>>)
Contribs(px, py, xl, yl) ==
    (IF px < xl
     THEN <<[x |-> px + 1, y |-> py, perc |-> sevenSixteenths]>>
          \o (IF py < yl
              THEN <<[x |-> px + 1, y |-> py + 1, perc |-> oneSixteenth]>>
              ELSE <<>>)
     ELSE <<>>)
    \o
    (IF py < yl
     THEN <<[x |-> px, y |-> py + 1, perc |-> fiveSixteenths]>>
          \o (IF px > 0
              THEN <<[x |-> px - 1, y |-> py + 1, perc |-> threeSixteenths]>>
              ELSE <<>>)
     ELSE <<>>)

addErrorContrib(img, px, py, errVal, perc) ==
    SetGray(img, px, py, Uint8(At(img, px, py) + IntOfProduct(errVal, perc)))

\* what one addErrorContrib call is asked to do: the target, the sample it
\* reads there and the contribution it adds
WriteOf(img, px, py, errVal, perc) ==
    [x |-> px, y |-> py, s |-> At(img, px, py),
     c |-> IntOfProduct(errVal, perc)]

RECURSIVE ApplyContribs(_, _, _)
ApplyContribs(img, cs, errVal) ==
    IF cs = <<>>
    THEN img
    ELSE ApplyContribs(
             addErrorContrib(img, Head(cs).x, Head(cs).y, errVal, Head(cs).perc),
             Tail(cs), errVal)

RECURSIVE WritesOf(_, _, _)
WritesOf(img, cs, errVal) ==
    IF cs = <<>>
    THEN <<>>
    ELSE <<WriteOf(img, Head(cs).x, Head(cs).y, errVal, Head(cs).perc)>>
         \o WritesOf(
                addErrorContrib(img, Head(cs).x, Head(cs).y, errVal, Head(cs).perc),
                Tail(cs), errVal)

\* the body of the inner loop at pixel (px, py)
PixelBody(img, px, py, xl, yl, lo, hi) ==
    LET v == At(img, px, py)
        q == Quantize(v, lo, hi)
    IN  ApplyContribs(SetGray(img, px, py, q), Contribs(px, py, xl, yl), v - q)

\* the whole of errorDiffusionDither as a function of the buffer
RECURSIVE DitherFrom(_, _, _, _)
DitherFrom(img, px, py, invert) ==
    LET lo == IF invert THEN MaxUint8 ELSE 0
        hi == IF invert THEN 0 ELSE MaxUint8
    IN  IF ~(py < img.h)
        THEN img
        ELSE IF ~InnerLoopCond(px, img.w)
             THEN DitherFrom(img, 0, py + 1, invert)
             ELSE DitherFrom(
                      PixelBody(img, px, py, img.w - 1, img.h - 1, lo, hi),
                      px + 1, py, invert)

-----------------------------------------------------------------------------
(* The run of main *)

Dims == {d \in (0..MaxW) \X (0..MaxH) : d[1] * d[2] <= MaxCells}

ImagesOf(d) ==
    {[w |-> d[1], h |-> d[2], pix |-> f] :
        f \in [Coords(d[1], d[2]) -> {<<v, v, v>> : v \in GrayLevels}]}

Files ==
    {Nil} \cup
    {[img |-> i, format |-> fm] :
        i \in UNION {ImagesOf(d) : d \in Dims}, fm \in Formats}

Init ==
    /\ pc = "main"
    /\ args \in [narg : {0, 1}, i : BOOLEAN]
    /\ file \in Files
    /\ cfg = Nil
    /\ inImg = Nil
    /\ inFormat = ""
    /\ err = FALSE
    /\ grayImg = Nil
    /\ width = 0 /\ height = 0 /\ xLim = 0 /\ yLim = 0
    /\ low = 0 /\ high = 0
    /\ x = 0 /\ y = 0
    /\ pixVal = 0 /\ dithVal = 0 /\ dithErr = 0
    /\ writes = <<>>
    /\ visited = <<>>
    /\ called = {}
    /\ outFile = Nil
    /\ exitStatus = -1
    /\ stderr = FALSE

\* buildConfigFromArgs fails: no input image specified
BuildConfigErr ==
    /\ pc = "main"
    /\ args.narg = 0
    /\ pc' = "exit"
    /\ exitStatus' = 1
    /\ stderr' = TRUE
    /\ UNCHANGED <<args, file, cfg, inImg, inFormat, err, grayImg,
                   width, height, xLim, yLim, low, high, x, y,
                   pixVal, dithVal, dithErr, writes, visited,
                   called, outFile>>

BuildConfigOk ==
    /\ pc = "main"
    /\ args.narg # 0
    /\ cfg' = [invert |-> args.i]
    /\ pc' = "load"
    /\ UNCHANGED <<args, file, inImg, inFormat, err, grayImg,
                   width, height, xLim, yLim, low, high, x, y,
                   pixVal, dithVal, dithErr, writes, visited,
                   called, outFile, exitStatus, stderr>>

\* loadImage returns the decoded image and its format
LoadImageOk ==
    /\ pc = "load"
    /\ file # Nil
    /\ inImg' = file.img
    /\ inFormat' = file.format
    /\ err' = FALSE
    /\ pc' = "gray"
    /\ UNCHANGED <<args, file, cfg, grayImg,
                   width, height, xLim, yLim, low, high, x, y,
                   pixVal, dithVal, dithErr, writes, visited,
                   called, outFile, exitStatus, stderr>>

\* loadImage fails (os.Open or image.Decode): main prints the error and
\* goes on to the next statement
LoadImageErr ==
    /\ pc = "load"
    /\ file = Nil
    /\ inImg' = Nil
    /\ inFormat' = ""
    /\ err' = TRUE
    /\ stderr' = TRUE
    /\ pc' = "gray"
    /\ UNCHANGED <<args, file, cfg, grayImg,
                   width, height, xLim, yLim, low, high, x, y,
                   pixVal, dithVal, dithErr, writes, visited,
                   called, outFile, exitStatus>>

ImageToGrayscale ==
    /\ pc = "gray"
    /\ inImg # Nil
    /\ called' = called \cup {"imageToGrayscale"}
    /\ grayImg' = imageToGrayscale(inImg)
    /\ pc' = "dither"
    /\ UNCHANGED <<args, file, cfg, inImg, inFormat, err,
                   width, height, xLim, yLim, low, high, x, y,
                   pixVal, dithVal, dithErr, writes, visited,
                   outFile, exitStatus, stderr>>

\* imageToGrayscale(nil): img.Bounds() on the nil interface panics, and the
\* Go runtime ends the process with status 2
ImageToGrayscalePanic ==
    /\ pc = "gray"
    /\ inImg = Nil
    /\ called' = called \cup {"imageToGrayscale"}
    /\ pc' = "exit"
    /\ exitStatus' = 2
    /\ stderr' = TRUE
    /\ UNCHANGED <<args, file, cfg, inImg, inFormat, err, grayImg,
                   width, height, xLim, yLim, low, high, x, y,
                   pixVal, dithVal, dithErr, writes, visited,
                   outFile>>

\* errorDiffusionDither up to the first test of the outer loop
DitherEnter ==
    /\ pc = "dither"
    /\ called' = called \cup {"errorDiffusionDither"}
    /\ width' = grayImg.w
    /\ height' = grayImg.h
    /\ xLim' = grayImg.w - 1
    /\ yLim' = grayImg.h - 1
    /\ low' = IF cfg.invert THEN MaxUint8 ELSE 0
    /\ high' = IF cfg.invert THEN 0 ELSE MaxUint8
    /\ x' = 0
    /\ y' = 0
    /\ pc' = "loop"
    /\ UNCHANGED <<args, file, cfg, inImg, inFormat, err, grayImg,
                   pixVal, dithVal, dithErr, writes, visited,
                   outFile, exitStatus, stderr>>

\* one iteration of the inner loop
DitherPixel ==
    /\ pc = "loop"
    /\ y < height
    /\ InnerLoopCond(x, width)
    /\ pixVal' = At(grayImg, x, y)
    /\ dithVal' = Quantize(pixVal', low, high)
    /\ dithErr' = pixVal' - dithVal'
    /\ grayImg' = ApplyContribs(SetGray(grayImg, x, y, dithVal'),
                                Contribs(x, y, xLim, yLim), dithErr')
    /\ writes' = WritesOf(SetGray(grayImg, x, y, dithVal'),
                          Contribs(x, y, xLim, yLim), dithErr')
    /\ visited' = Append(visited, <<x, y>>)
    /\ x' = x + 1
    /\ UNCHANGED <<pc, args, file, cfg, inImg, inFormat, err,
                   width, height, xLim, yLim, low, high, y,
                   called, outFile, exitStatus, stderr>>

\* the inner loop ends: y++ and the next row starts at x = 0
DitherRowEnd ==
    /\ pc = "loop"
    /\ y < height
    /\ ~InnerLoopCond(x, width)
    /\ y' = y + 1
    /\ x' = 0
    /\ UNCHANGED <<pc, args, file, cfg, inImg, inFormat, err, grayImg,
                   width, height, xLim, yLim, low, high,
                   pixVal, dithVal, dithErr, writes, visited,
                   called, outFile, exitStatus, stderr>>

DitherReturn ==
    /\ pc = "loop"
    /\ ~(y < height)
    /\ pc' = "save"
    /\ UNCHANGED <<args, file, cfg, inImg, inFormat, err, grayImg,
                   width, height, xLim, yLim, low, high, x, y,
                   pixVal, dithVal, dithErr, writes, visited,
                   called, outFile, exitStatus, stderr>>

\* saveImage writes the dithered image in the input's format
SaveImageOk ==
    /\ pc = "save"
    /\ inFormat \in Formats
    /\ outFile' = [img |-> grayImg, format |-> inFormat]
    /\ pc' = "exit"
    /\ exitStatus' = 0
    /\ UNCHANGED <<args, file, cfg, inImg, inFormat, err, grayImg,
                   width, height, xLim, yLim, low, high, x, y,
                   pixVal, dithVal, dithErr, writes, visited,
                   called, stderr>>

\* saveImage fails (os.Create, the encoder, or an unknown format)
SaveImageErr ==
    /\ pc = "save"
    /\ stderr' = TRUE
    /\ pc' = "exit"
    /\ exitStatus' = 1
    /\ UNCHANGED <<args, file, cfg, inImg, inFormat, err, grayImg,
                   width, height, xLim, yLim, low, high, x, y,
                   pixVal, dithVal, dithErr, writes, visited,
                   called, outFile>>

Next ==
    \/ BuildConfigErr
    \/ BuildConfigOk
    \/ LoadImageOk
    \/ LoadImageErr
    \/ ImageToGrayscale
    \/ ImageToGrayscalePanic
    \/ DitherEnter
    \/ DitherPixel
    \/ DitherRowEnd
    \/ DitherReturn
    \/ SaveImageOk
    \/ SaveImageErr

Spec == Init /\ [][Next]_vars

-----------------------------------------------------------------------------
(* imageToGrayscale alone, on single-pixel images of any colour *)

InitGray ==
    /\ pc = "gray"
    /\ args = [narg |-> 1, i |-> FALSE]
    /\ \E c \in Channels \X Channels \X Channels :
          /\ inImg = [w |-> 1, h |-> 1, pix |-> [p \in Coords(1, 1) |-> c]]
          /\ file = [img |-> inImg, format |-> "png"]
    /\ cfg = [invert |-> FALSE]
    /\ inFormat = "png"
    /\ err = FALSE
    /\ grayImg = Nil
    /\ width = 0 /\ height = 0 /\ xLim = 0 /\ yLim = 0
    /\ low = 0 /\ high = 0
    /\ x = 0 /\ y = 0
    /\ pixVal = 0 /\ dithVal = 0 /\ dithErr = 0
    /\ writes = <<>>
    /\ visited = <<>>
    /\ called = {}
    /\ outFile = Nil
    /\ exitStatus = -1
    /\ stderr = FALSE

SpecGray == InitGray /\ [][ImageToGrayscale]_vars

-----------------------------------------------------------------------------
(* addErrorContrib alone, on a single sample, with any residual and weight *)

Percs ==
    {oneSixteenth, threeSixteenths, fiveSixteenths, sevenSixteenths,
     oneSixteenth_frac, threeSixteenths_frac, fiveSixteenths_frac,
     sevenSixteenths_frac}

InitContrib ==
    /\ pc = "contrib"
    /\ args = [narg |-> 1, i |-> FALSE]
    /\ file = Nil
    /\ cfg = [invert |-> FALSE]
    /\ inImg = Nil
    /\ inFormat = ""
    /\ err = FALSE
    /\ \E s \in ContribSamples :
          grayImg = [w |-> 1, h |-> 1, pix |-> [p \in Coords(1, 1) |-> s]]
    /\ width = 1 /\ height = 1 /\ xLim = 0 /\ yLim = 0
    /\ low = 0 /\ high = MaxUint8
    /\ x = 0 /\ y = 0
    /\ pixVal = 0 /\ dithVal = 0
    /\ dithErr \in ContribErrs
    /\ writes = <<>>
    /\ visited = <<>>
    /\ called = {}
    /\ outFile = Nil
    /\ exitStatus = -1
    /\ stderr = FALSE

AddErrorContribCall ==
    /\ pc = "contrib"
    /\ \E perc \in Percs :
          /\ grayImg' = addErrorContrib(grayImg, x, y, dithErr, perc)
          /\ writes' = <<WriteOf(grayImg, x, y, dithErr, perc)>>
    /\ pc' = "contribDone"
    /\ UNCHANGED <<args, file, cfg, inImg, inFormat, err,
                   width, height, xLim, yLim, low, high, x, y,
                   pixVal, dithVal, dithErr, visited,
                   called, outFile, exitStatus, stderr>>

SpecContrib == InitContrib /\ [][AddErrorContribCall]_vars

-----------------------------------------------------------------------------
(* Properties *)

DitherFinished ==
    pc = "save" \/ (pc = "exit" /\ "errorDiffusionDither" \in called)

Samples(img) == {img.pix[p] : p \in DOMAIN img.pix}

\* n/d truncated toward zero
TruncQuo(n, d) == IF n >= 0 THEN n \div d ELSE -((-n) \div d)

\* the pixel the last DitherPixel step visited
LastVisited == visited[Len(visited)]

\* C1: when errorDiffusionDither has finished, whatever the width, the
\* height and the invert flag, every sample of the buffer is 0 or 255.
C1_AllSentinels ==
    DitherFinished => \A p \in DOMAIN grayImg.pix : grayImg.pix[p] \in {0, 255}

C1_Witness ==
    /\ pc = "save"
    /\ cfg.invert
    /\ grayImg.w = 3 /\ grayImg.h = 2
    /\ Samples(grayImg) = {0, 255}

\* the weight sixteenths the Floyd-Steinberg kernel gives the neighbour at
\* offset (dx, dy)
KernelSixteenths(dx, dy) ==
    CASE dx = 1 /\ dy = 0 -> 7
      [] dx = -1 /\ dy = 1 -> 3
      [] dx = 0 /\ dy = 1 -> 5
      [] dx = 1 /\ dy = 1 -> 1
      [] OTHER -> 0

Scenario2x2 ==
    [w |-> 2, h |-> 2,
     pix |-> [p \in Coords(2, 2) |-> IF p[1] = p[2] THEN 200 ELSE 50]]

\* C2: processing pixel (x,y) with value v and quantized value q adds
\* trunc_toward_zero((v - q) * w) to each in-bounds neighbour, with w = 7/16,
\* 3/16, 5/16, 1/16 for (x+1,y), (x-1,y+1), (x,y+1), (x+1,y+1); for the 2x2
\* buffer [[200,50],[50,200]] without invert, after pixel (0,0) is processed
\* it holds 255 and pixel (1,0) holds 26.
C2_KernelContributions ==
    (pc = "loop" /\ visited # <<>>) =>
        /\ \A k \in 1..Len(writes) :
              writes[k].c =
                  TruncQuo((pixVal - dithVal)
                             * KernelSixteenths(writes[k].x - LastVisited[1],
                                                writes[k].y - LastVisited[2]),
                           16)
        /\ (/\ imageToGrayscale(inImg) = Scenario2x2
            /\ ~cfg.invert
            /\ visited = << <<0, 0>> >>)
           => (At(grayImg, 0, 0) = 255 /\ At(grayImg, 1, 0) = 26)

Swap(img) ==
    [img EXCEPT !.pix = [p \in DOMAIN img.pix |->
                            IF img.pix[p] = 0 THEN 255
                            ELSE IF img.pix[p] = 255 THEN 0
                            ELSE img.pix[p]]]

\* C3: dithering an input with invert and then swapping 0 and 255 in every
\* sample gives the buffer that dithering the same input without invert gives.
C3_InvertSymmetry ==
    (pc = "save" /\ cfg.invert) =>
        Swap(grayImg) = DitherFrom(imageToGrayscale(inImg), 0, 0, FALSE)

C3_Witness ==
    /\ pc = "save"
    /\ cfg.invert
    /\ grayImg.w = 3 /\ grayImg.h = 2
    /\ At(grayImg, 0, 0) = 0
    /\ At(grayImg, 1, 0) = 255
    /\ At(imageToGrayscale(inImg), 0, 0) = 200
    /\ At(imageToGrayscale(inImg), 1, 0) = 50

\* C4: after a failed loadImage the run ends with a non-zero status and the
\* core never starts: imageToGrayscale and errorDiffusionDither are not
\* invoked and no output file is written.
C4_LoadFailureStopsRun ==
    err =>
        /\ "imageToGrayscale" \notin called
        /\ "errorDiffusionDither" \notin called
        /\ outFile = Nil
        /\ pc = "exit" => exitStatus > 0

\* C5: every neighbour write of addErrorContrib, at every visited pixel
\* (left, right and bottom edges included), targets (nx, ny) with
\* 0 <= nx < W and 0 <= ny < H.
C5_BoundarySafety ==
    \A k \in 1..Len(writes) :
        /\ 0 <= writes[k].x /\ writes[k].x < grayImg.w
        /\ 0 <= writes[k].y /\ writes[k].y < grayImg.h

C5_Witness ==
    /\ pc = "loop"
    /\ grayImg.w = 3 /\ grayImg.h = 2
    /\ visited # <<>>
    /\ LastVisited = <<2, 0>>
    /\ Len(writes) = 2

\* C6: the buffer imageToGrayscale returns has the source's width and
\* height, errorDiffusionDither never changes them, and an empty source
\* gives an equally empty buffer without error.
C6_DimensionsPreserved ==
    /\ grayImg # Nil =>
          /\ grayImg.w = inImg.w
          /\ grayImg.h = inImg.h
          /\ DOMAIN grayImg.pix = Coords(inImg.w, inImg.h)
    /\ (inImg # Nil /\ pc \notin {"main", "load", "gray"}) => grayImg # Nil

C6_Witness ==
    /\ pc = "save"
    /\ inImg.w = 0 /\ inImg.h = 2
    /\ grayImg.w = 0 /\ grayImg.h = 2
    /\ grayImg.pix = << >>

PureColours == {<<255, 0, 0>>, <<0, 255, 0>>, <<0, 0, 255>>}

\* 0.299*R + 0.587*G + 0.114*B rounded to the nearest integer
WeightedSum(c) == (299 * c[1] + 587 * c[2] + 114 * c[3] + 500) \div 1000

\* C7: for a pure red, pure green or pure blue source pixel the sample
\* imageToGrayscale stores is in 0..255 and within 1 of the weighted sum
\* 0.299*R + 0.587*G + 0.114*B rounded to the nearest integer.
C7_Luminance ==
    grayImg # Nil =>
        \A p \in DOMAIN inImg.pix :
            inImg.pix[p] \in PureColours =>
                /\ grayImg.pix[p] \in 0..255
                /\ grayImg.pix[p] - WeightedSum(inImg.pix[p]) \in {-1, 0, 1}

C7_Witness ==
    /\ grayImg # Nil
    /\ inImg.pix[<<0, 0>>] = <<255, 0, 0>>
    /\ grayImg.pix[<<0, 0>>] = 76

C9_QuantizationRule ==
    [][(pc = "loop" /\ visited' # visited) =>
          At(grayImg', x, y) =
              IF At(grayImg, x, y) > 127
              THEN (IF cfg.invert THEN 0 ELSE 255)
              ELSE (IF cfg.invert THEN 255 ELSE 0)]_vars

C9_Witness ==
    /\ pc = "loop"
    /\ visited # <<>>
    /\ cfg.invert
    /\ pixVal = 127
    /\ dithVal = 255
    /\ At(grayImg, LastVisited[1], LastVisited[2]) = 255

\* C10: pixels are visited in row-major order, all of them; every neighbour
\* write made at a pixel targets a pixel that comes strictly later in that
\* order; a pixel once quantized is never modified again.
C10_RowMajorOrder ==
    [][/\ visited' # visited =>
            /\ visited' = Append(visited, <<Len(visited) % width,
                                            Len(visited) \div width>>)
            /\ \A k \in 1..Len(writes') :
                  writes'[k].y * width + writes'[k].x > Len(visited)
       /\ (pc = "loop" /\ pc' = "save") => Len(visited) = width * height
       /\ \A k \in 1..Len(visited) :
             At(grayImg', visited[k][1], visited[k][2])
                 = At(grayImg, visited[k][1], visited[k][2])]_vars

C10_Witness ==
    /\ pc = "loop"
    /\ width = 3 /\ height = 2
    /\ Len(visited) = 5
    /\ LastVisited = <<1, 1>>
    /\ Len(writes) = 1

====
